---- MODULE Spec2Model ----
(***************************************************************************)
(* Model of localstack/init.py: a run-to-completion script that reads      *)
(* S3_BUCKET from the process environment, builds an S3 client bound to    *)
(* http://localhost:4566 and issues one create_bucket call, printing three *)
(* progress lines around it.                                               *)
(*                                                                         *)
(* The script's statements are the actions (one per source line); the      *)
(* create_bucket statement is split in two, the call being issued and the  *)
(* call returning or raising, so that the request in flight is a state.    *)
(* boto3 and the emulator are outside the repository: every outcome they   *)
(* can produce (an exception at client construction, an exception raised   *)
(* before the request leaves the SDK, an unreachable endpoint, a backend   *)
(* rejection, a conflict, a success) is a nondeterministic choice.  The    *)
(* emulator is taken to change its bucket set only when it answers a       *)
(* create-bucket request with success.                                     *)
(*                                                                         *)
(* The process may be launched again after it has exited (Launch), with    *)
(* the emulator keeping its buckets between runs.                          *)
(***************************************************************************)
EXTENDS Integers, Sequences, FiniteSets

\* Number of times the script is run against the same emulator.
MaxRuns == 2

\* ---------------------------------------------------------------- values

\* Python's None, and a str value; os.getenv returns one or the other.
None == [none |-> TRUE, str |-> ""]
Str(s) == [none |-> FALSE, str |-> s]

\* Bucket names the environment and the emulator draw from.
BucketNames == {"test-bucket", "logs"}

\* What S3_BUCKET can hold: unset, set but empty, or a name.
BucketEnvValues == {None, Str("")} \cup {Str(n) : n \in BucketNames}

\* What a credential variable can hold: unset or a value.
CredEnvValues == {None, Str("test")}

Environments ==
    [S3_BUCKET : BucketEnvValues,
     AWS_ACCESS_KEY_ID : CredEnvValues,
     AWS_SECRET_ACCESS_KEY : CredEnvValues]

\* The endpoint literal of the client.
EndpointUrl == "http://localhost:4566"

\* The unbound state of a module-level name before its assignment.
Unbound == [none |-> TRUE, str |-> "<unbound>"]
NoClient == [built |-> FALSE, endpoint_url |-> "", aws_access_key_id |-> None,
             aws_secret_access_key |-> None]

\* Exceptions the SDK raises without a request having reached the backend.
ConstructionErrors == {"PartialCredentialsError"}
PreSendErrors == {"ParamValidationError", "NoCredentialsError"}

VARIABLES
    env,          \* the process environment of the current run
    buckets,      \* the emulator's bucket set
    idempotent,   \* whether the backend answers a re-creation with success
    pc,           \* the statement the script is at, or "exited"
    bucket_name,  \* the script's variable bucket_name
    s3_client,    \* the script's variable s3_client
    stdout,       \* lines written to standard output by the current run
    calls,        \* library calls made by the current run, in order
    response,     \* outcome of the current run's create_bucket call
    exception,    \* the uncaught exception that ended the run, or ""
    exit_status,  \* -1 while running, then the process exit status
    requests,     \* log of the requests that left the SDK, over all runs,
                  \* each tagged with the run that sent it
    pre_buckets,  \* the emulator's bucket set when the current run started
    run           \* index of the current run

vars == <<env, buckets, idempotent, pc, bucket_name, s3_client, stdout, calls,
          response, exception, exit_status, requests, pre_buckets, run>>

\* ------------------------------------------------------------ pure parts

\* os.getenv(name): the value of the variable, None when it is unset.
Getenv(name) == env[name]

\* The f-string conversion {bucket_name}: str() of the value.
Format(v) == IF v.none THEN "None" ELSE v.str

\* Line 4's literal.
StartingLine == "Starting S3 initialization..."

\* Line 6: f"Creating bucket: {bucket_name}".
CreatingLine(v) == "Creating bucket: " \o Format(v)

\* Line 16: f"Bucket {bucket_name} created successfully".
SuccessLine(v) == "Bucket " \o Format(v) \o " created successfully"

\* Program order with the create_bucket statement left out.
NextLineSkipCall(l) ==
    CASE l = "line4" -> "line5"
      [] l = "line5" -> "line6"
      [] l = "line6" -> "line8"
      [] l = "line8" -> "line16"
      [] l = "line15" -> "line16"
      [] l = "line16" -> "exited"

\* Program order with the success line printed before the call is made.
NextLinePrintBeforeCall(l) ==
    CASE l = "line4" -> "line5"
      [] l = "line5" -> "line6"
      [] l = "line6" -> "line8"
      [] l = "line8" -> "line16"
      [] l = "line16" -> "line15"
      [] l = "line15" -> "exited"

\* Program order with the client built before S3_BUCKET is read.
NextLineClientFirst(l) ==
    CASE l = "line4" -> "line8"
      [] l = "line8" -> "line5"
      [] l = "line5" -> "line6"
      [] l = "line6" -> "line15"
      [] l = "line15" -> "line16"
      [] l = "line16" -> "exited"

\* Program order with the call and the success line inside a loop.
NextLineLoop(l) ==
    CASE l = "line4" -> "line5"
      [] l = "line5" -> "line6"
      [] l = "line6" -> "line8"
      [] l = "line8" -> "line15"
      [] l = "line15" -> "line16"
      [] l = "line16" -> "line15"

\* Program order of the script's statements.
NextLine(l) ==
    CASE l = "line4" -> "line5"
      [] l = "line5" -> "line6"
      [] l = "line6" -> "line8"
      [] l = "line8" -> "line15"
      [] l = "line15" -> "line16"
      [] l = "line16" -> "exited"

\* Falling off the end of the script: the interpreter exits with status 0.
Advance(l) ==
    /\ pc' = NextLine(l)
    /\ exit_status' = IF NextLine(l) = "exited" THEN 0 ELSE exit_status
    /\ exception' = exception

\* An exception caught by a handler that ends the process with status 0.
RaiseExitZero(e) ==
    /\ pc' = "exited"
    /\ exit_status' = 0
    /\ exception' = e
    /\ stdout' = stdout

\* An exception caught and dropped: the script goes on with the next
\* statement.
RaiseSwallowed(e) ==
    /\ pc' = NextLine(IF pc = "line15_wait" THEN "line15" ELSE pc)
    /\ exit_status' = exit_status
    /\ exception' = exception
    /\ stdout' = stdout

\* An exception nothing catches: the interpreter prints the traceback and
\* exits with status 1; no later statement runs.
Raise(e) ==
    /\ pc' = "exited"
    /\ exit_status' = 1
    /\ exception' = e
    /\ stdout' = stdout

\* The keyword arguments of boto3.client(...), evaluated left to right.
ClientArgs ==
    [built |-> TRUE,
     endpoint_url |-> EndpointUrl,
     aws_access_key_id |-> Getenv("AWS_ACCESS_KEY_ID"),
     aws_secret_access_key |-> Getenv("AWS_SECRET_ACCESS_KEY")]

\* A request that names a hard-coded bucket instead of the argument.
CreateBucketRequestFixedName(client, name) ==
    [endpoint_url |-> client.endpoint_url, Bucket |-> Str("logs")]

\* The request s3_client.create_bucket(Bucket=name) puts on the wire.
CreateBucketRequest(client, name) ==
    [endpoint_url |-> client.endpoint_url, Bucket |-> name]

\* The emulator's answer to a create-bucket request that reached it.
BackendAnswer(req) ==
    IF req.Bucket.none \/ req.Bucket.str = "" THEN "InvalidBucketName"
    ELSE IF req.Bucket.str \in buckets
         THEN (IF idempotent THEN "ok" ELSE "BucketAlreadyOwnedByYou")
         ELSE "ok"

\* The emulator's bucket set after it has answered req with `answer`.
BackendBuckets(req, answer) ==
    IF answer = "ok" THEN buckets \cup {req.Bucket.str} ELSE buckets

\* ---------------------------------------------------------------- state

Init ==
    /\ env \in Environments
    /\ buckets \in SUBSET BucketNames
    /\ idempotent \in BOOLEAN
    /\ pc = "line4"
    /\ bucket_name = Unbound
    /\ s3_client = NoClient
    /\ stdout = <<>>
    /\ calls = <<>>
    /\ response = "none"
    /\ exception = ""
    /\ exit_status = -1
    /\ requests = <<>>
    /\ pre_buckets = buckets
    /\ run = 1

\* Line 4: print("Starting S3 initialization...")
Line4_PrintStarting ==
    /\ pc = "line4"
    /\ stdout' = Append(stdout, StartingLine)
    /\ Advance("line4")
    /\ UNCHANGED <<env, buckets, idempotent, bucket_name, s3_client, calls,
                   response, requests, pre_buckets, run>>

\* Line 5 followed by a local check that fails fast on a missing name.
Line5_GetBucketNameValidated ==
    /\ pc = "line5"
    /\ bucket_name' = Getenv("S3_BUCKET")
    /\ calls' = Append(calls, "getenv:S3_BUCKET")
    /\ IF Getenv("S3_BUCKET").none
          THEN /\ pc' = "exited"
               /\ exit_status' = 1
               /\ exception' = "ValueError"
          ELSE Advance("line5")
    /\ UNCHANGED <<env, buckets, idempotent, s3_client, stdout, response,
                   requests, pre_buckets, run>>

\* Line 5: bucket_name = os.getenv("S3_BUCKET")
Line5_GetBucketName ==
    /\ pc = "line5"
    /\ bucket_name' = Getenv("S3_BUCKET")
    /\ calls' = Append(calls, "getenv:S3_BUCKET")
    /\ Advance("line5")
    /\ UNCHANGED <<env, buckets, idempotent, s3_client, stdout, response,
                   requests, pre_buckets, run>>

\* Line 6: print(f"Creating bucket: {bucket_name}")
Line6_PrintCreating ==
    /\ pc = "line6"
    /\ stdout' = Append(stdout, CreatingLine(bucket_name))
    /\ Advance("line6")
    /\ UNCHANGED <<env, buckets, idempotent, bucket_name, s3_client, calls,
                   response, requests, pre_buckets, run>>

\* Lines 8-13: s3_client = boto3.client("s3", endpoint_url=..., ...).  The two
\* credential variables are read as the arguments are evaluated, then the
\* client is constructed; construction returns the client or raises.
Line8_BuildClient ==
    /\ pc = "line8"
    /\ calls' = calls \o <<"getenv:AWS_ACCESS_KEY_ID",
                           "getenv:AWS_SECRET_ACCESS_KEY", "boto3.client">>
    /\ \/ /\ s3_client' = ClientArgs
          /\ stdout' = stdout
          /\ Advance("line8")
       \/ /\ \E e \in ConstructionErrors : Raise(e)
          /\ s3_client' = s3_client
    /\ UNCHANGED <<env, buckets, idempotent, bucket_name, response, requests,
                   pre_buckets, run>>

\* Line 15 guarded by a look-up: the request is skipped when the bucket is
\* already there.
Line15_CreateBucketCallSkipExisting ==
    /\ pc = "line15"
    /\ IF ~bucket_name.none /\ bucket_name.str \in buckets
          THEN /\ Advance("line15")
               /\ UNCHANGED <<calls, requests, stdout, response>>
          ELSE /\ calls' = Append(calls, "create_bucket")
               /\ requests' = Append(requests,
                     [run |-> run, req |-> CreateBucketRequest(s3_client, bucket_name)])
               /\ pc' = "line15_wait"
               /\ UNCHANGED <<exit_status, exception, stdout, response>>
    /\ UNCHANGED <<env, buckets, idempotent, bucket_name, s3_client,
                   pre_buckets, run>>

\* Line 15, first half: s3_client.create_bucket(Bucket=bucket_name) is called.
\* The SDK either raises before anything is sent or sends the request.
Line15_CreateBucketCall ==
    /\ pc = "line15"
    /\ calls' = Append(calls, "create_bucket")
    /\ \/ /\ requests' = Append(requests,
                 [run |-> run, req |-> CreateBucketRequest(s3_client, bucket_name)])
          /\ pc' = "line15_wait"
          /\ UNCHANGED <<exit_status, exception, stdout, response>>
       \/ /\ \E e \in PreSendErrors : Raise(e)
          /\ response' = "raised_before_send"
          /\ requests' = requests
    /\ UNCHANGED <<env, buckets, idempotent, bucket_name, s3_client,
                   pre_buckets, run>>

\* Line 15's call retried when the endpoint cannot be reached.
Line15_CreateBucketReturnRetrying ==
    /\ pc = "line15_wait"
    /\ \E answer \in {"EndpointConnectionError", "AccessDenied",
                      BackendAnswer(requests[Len(requests)].req)} :
          /\ response' = answer
          /\ buckets' = BackendBuckets(requests[Len(requests)].req, answer)
          /\ IF answer = "ok"
                THEN Advance("line15") /\ stdout' = stdout
                ELSE IF answer = "EndpointConnectionError"
                     THEN /\ pc' = "line15"
                          /\ UNCHANGED <<exit_status, exception, stdout>>
                     ELSE Raise(answer)
    /\ UNCHANGED <<env, idempotent, bucket_name, s3_client, calls, requests,
                   pre_buckets, run>>

\* Line 15, second half: the call returns or raises.  The endpoint is
\* unreachable, or the backend refuses the request, or it answers it.
Line15_CreateBucketReturn ==
    /\ pc = "line15_wait"
    /\ \E answer \in {"EndpointConnectionError", "AccessDenied",
                      BackendAnswer(requests[Len(requests)].req)} :
          /\ response' = answer
          /\ buckets' = BackendBuckets(requests[Len(requests)].req, answer)
          /\ IF answer = "ok"
                THEN Advance("line15") /\ stdout' = stdout
                ELSE Raise(answer)
    /\ UNCHANGED <<env, idempotent, bucket_name, s3_client, calls, requests,
                   pre_buckets, run>>

\* Line 16: print(f"Bucket {bucket_name} created successfully"), after which
\* the script ends.
Line16_PrintSuccess ==
    /\ pc = "line16"
    /\ stdout' = Append(stdout, SuccessLine(bucket_name))
    /\ Advance("line16")
    /\ UNCHANGED <<env, buckets, idempotent, bucket_name, s3_client, calls,
                   response, requests, pre_buckets, run>>

\* The script is run again, in a fresh process, against the same emulator.
Launch ==
    /\ pc = "exited"
    /\ run < MaxRuns
    /\ run' = run + 1
    /\ env' \in Environments
    /\ pc' = "line4"
    /\ bucket_name' = Unbound
    /\ s3_client' = NoClient
    /\ stdout' = <<>>
    /\ calls' = <<>>
    /\ response' = "none"
    /\ exception' = ""
    /\ exit_status' = -1
    /\ pre_buckets' = buckets
    /\ UNCHANGED <<buckets, idempotent, requests>>

Next ==
    \/ Line4_PrintStarting
    \/ Line5_GetBucketName
    \/ Line6_PrintCreating
    \/ Line8_BuildClient
    \/ Line15_CreateBucketCall
    \/ Line15_CreateBucketReturn
    \/ Line16_PrintSuccess
    \/ Launch

Spec == Init /\ [][Next]_vars

\* The script's own steps always run when they can (a single thread that is
\* never suspended), and the create_bucket call eventually returns or raises.
FairSpec ==
    /\ Spec
    /\ WF_vars(Line4_PrintStarting)
    /\ WF_vars(Line5_GetBucketName)
    /\ WF_vars(Line6_PrintCreating)
    /\ WF_vars(Line8_BuildClient)
    /\ WF_vars(Line15_CreateBucketCall)
    /\ WF_vars(Line15_CreateBucketReturn)
    /\ WF_vars(Line16_PrintSuccess)

\* ------------------------------------------------------- derived notions

Exited == pc = "exited"
Succeeded == Exited /\ exit_status = 0
Failed == Exited /\ exit_status # 0

\* The requests the current run has sent, and those of the run before it.
RequestsOf(r) == SelectSeq(requests, LAMBDA x : x.run = r)
RunRequests == RequestsOf(run)

\* How many times c occurs in the current run's call log.
Count(c) == Cardinality({i \in 1..Len(calls) : calls[i] = c})

\* The calls of a complete run, in the order the script makes them.
ExpectedCalls ==
    <<"getenv:S3_BUCKET", "getenv:AWS_ACCESS_KEY_ID",
      "getenv:AWS_SECRET_ACCESS_KEY", "boto3.client", "create_bucket">>

IsPrefix(s, t) == Len(s) <= Len(t) /\ \A i \in 1..Len(s) : s[i] = t[i]

\* The create_bucket call got an answer from the backend (it was neither
\* stopped inside the SDK nor lost on an unreachable endpoint).
BackendAnswered ==
    response \in {"ok", "BucketAlreadyOwnedByYou", "InvalidBucketName", "AccessDenied"}

\* ----------------------------------------------------------------- claims

\* C1: for every non-empty bucket name n, a run with S3_BUCKET=n that has
\* terminated successfully leaves a bucket named exactly n on the emulator,
\* and the one request it sent carried the value of S3_BUCKET unmodified.
C1_BucketExistsAfterSuccess ==
    \A n \in BucketNames :
        (env.S3_BUCKET = Str(n) /\ Succeeded) =>
            /\ n \in buckets
            /\ Len(RunRequests) = 1
            /\ RunRequests[1].req.Bucket = Str(n)
            /\ RunRequests[1].req.endpoint_url = "http://localhost:4566"

C1_Witness ==
    /\ Succeeded
    /\ env.S3_BUCKET = Str("test-bucket")
    /\ "test-bucket" \notin pre_buckets
    /\ "test-bucket" \in buckets

\* C2: a successful run with S3_BUCKET=n has written exactly the three lines
\* "Starting S3 initialization...", "Creating bucket: n", "Bucket n created
\* successfully", in this order; the first two are on standard output while
\* the request is being issued and the third only once the call has returned.
C2_StdoutOfSuccessfulRun ==
    \A n \in BucketNames :
        env.S3_BUCKET = Str(n) =>
            /\ Succeeded =>
                 stdout = <<"Starting S3 initialization...",
                            "Creating bucket: " \o n,
                            "Bucket " \o n \o " created successfully">>
            /\ (Succeeded /\ n = "test-bucket") =>
                 /\ stdout[2] = "Creating bucket: test-bucket"
                 /\ stdout[3] = "Bucket test-bucket created successfully"
            /\ (Count("create_bucket") > 0 /\ response = "none") =>
                 stdout = <<"Starting S3 initialization...",
                            "Creating bucket: " \o n>>
            /\ pc = "line15" => Len(stdout) = 2
            /\ Len(stdout) = 3 => response = "ok"

C2_Witness ==
    /\ Succeeded
    /\ env.S3_BUCKET = Str("test-bucket")
    /\ Len(stdout) = 3

\* C3: the calls of a run are made in the fixed order read S3_BUCKET, read
\* the credential variables, construct the client, issue the request: the
\* call log is always a prefix of that sequence, a built client holds the
\* values read from the environment, and a request is sent only by a built
\* client after S3_BUCKET has been read.
C3_FixedOrder ==
    /\ IsPrefix(calls, ExpectedCalls)
    /\ s3_client.built =>
          /\ bucket_name = env.S3_BUCKET
          /\ s3_client.aws_access_key_id = env.AWS_ACCESS_KEY_ID
          /\ s3_client.aws_secret_access_key = env.AWS_SECRET_ACCESS_KEY
          /\ s3_client.endpoint_url = "http://localhost:4566"
    /\ Count("boto3.client") > 0 => calls[1] = "getenv:S3_BUCKET"
    /\ RunRequests # <<>> =>
          /\ s3_client.built
          /\ calls[1] = "getenv:S3_BUCKET"
          /\ Count("boto3.client") = 1

C3_Witness ==
    /\ calls = ExpectedCalls
    /\ RunRequests # <<>>

\* C4: the exit status is 0 exactly when the create_bucket call returned
\* without error; a failure ends the run with a non-zero status and the
\* exception that was raised, and nothing runs after the failing statement
\* (no success line, no request after a failed construction).
C4_ExitStatus ==
    /\ Exited <=> exit_status \in {0, 1}
    /\ Exited => (exit_status = 0 <=> response = "ok")
    /\ Exited => (exit_status = 0 <=> exception = "")
    /\ (response \notin {"none", "ok"}) => Failed
    /\ Failed =>
          /\ Len(stdout) = 2
          /\ exception \in ConstructionErrors =>
                /\ calls[Len(calls)] = "boto3.client"
                /\ RunRequests = <<>>
                /\ ~s3_client.built
          /\ exception \notin ConstructionErrors =>
                /\ calls[Len(calls)] = "create_bucket"
                /\ exception \in PreSendErrors => RunRequests = <<>>
                /\ exception \notin PreSendErrors => exception = response

C4_Witness ==
    /\ Failed
    /\ response = "BucketAlreadyOwnedByYou"

\* C5: a run issues at most one create_bucket call and sends at most one
\* request, whatever the outcome, and exactly one of each when it succeeds.
C5_AtMostOneRequest ==
    /\ Count("create_bucket") <= 1
    /\ Count("boto3.client") <= 1
    /\ Len(RunRequests) <= 1
    /\ Succeeded => (Count("create_bucket") = 1 /\ Len(RunRequests) = 1)

C5_Witness ==
    /\ Failed
    /\ response = "EndpointConnectionError"
    /\ Len(RunRequests) = 1

\* C6: with S3_BUCKET unset the script validates nothing itself: it prints
\* "Creating bucket: None" and goes on to construct the client; the run then
\* fails, either with a request carrying the None name sent and not accepted,
\* or with an SDK exception before any request is sent.
C6_UnsetBucketName ==
    (env.S3_BUCKET = None /\ Exited) =>
        /\ exit_status = 1
        /\ stdout = <<"Starting S3 initialization...", "Creating bucket: None">>
        /\ Count("boto3.client") = 1
        /\ \/ /\ Len(RunRequests) = 1
              /\ RunRequests[1].req.Bucket = None
              /\ response \in {"InvalidBucketName", "AccessDenied",
                               "EndpointConnectionError"}
           \/ /\ RunRequests = <<>>
              /\ exception \in ConstructionErrors \cup PreSendErrors

C6_Witness ==
    /\ env.S3_BUCKET = None
    /\ Exited
    /\ response = "InvalidBucketName"

\* The current run follows a run that sent a request for the same bucket name,
\* and the bucket exists when the current run starts.
Rerun ==
    /\ run > 1
    /\ ~env.S3_BUCKET.none
    /\ env.S3_BUCKET.str \in pre_buckets
    /\ Len(RequestsOf(run - 1)) = 1
    /\ RequestsOf(run - 1)[1].req.Bucket = env.S3_BUCKET

\* C7: a run against a bucket that already exists is not special-cased: once
\* past the SDK it has sent the same request as the run before it, its exit
\* status is 0 exactly when the backend answered with success, the backend's
\* answer is success when it is idempotent and a conflict when it is not, and
\* with an idempotent backend the bucket set is the one the run started with.
C7_RerunNotSpecialCased ==
    Rerun =>
        /\ (pc \in {"line15_wait", "line16"} \/ Succeeded) =>
              /\ Len(RunRequests) = 1
              /\ RunRequests[1].req = RequestsOf(run - 1)[1].req
        /\ Exited => (exit_status = 0 <=> response = "ok")
        /\ (BackendAnswered /\ response # "AccessDenied") =>
              response = (IF idempotent THEN "ok" ELSE "BucketAlreadyOwnedByYou")
        /\ response = "BucketAlreadyOwnedByYou" => Failed
        /\ ~idempotent => ~Succeeded
        /\ buckets = pre_buckets

C7_Witness ==
    /\ Rerun
    /\ Succeeded
    /\ idempotent

\* C8: every run terminates, given that the create_bucket call returns or
\* raises; once the call has returned the only step left is the final
\* progress line, after which the process has exited, and the script never
\* goes back to an earlier statement.
C8_Terminates ==
    /\ [](~Exited => <>Exited)
    /\ [][pc = "line15_wait" => pc' \in {"line16", "exited"}]_vars
    /\ [][pc = "line16" => pc' = "exited"]_vars
    /\ [][pc' = "line15" => pc = "line8"]_vars
    /\ [][(pc' = "line4" /\ pc # "line4") => (Exited /\ run' = run + 1)]_vars

C8_Witness ==
    /\ Exited
    /\ response = "ok"
    /\ run = 2

\* C9: the success line is on standard output only if the create_bucket call
\* returned without error; a run that failed at client construction or at the
\* call has written exactly "Starting S3 initialization..." and "Creating
\* bucket: n" (n printed as None when S3_BUCKET is unset), both before the
\* client was built.
C9_SuccessLineOnlyOnSuccess ==
    /\ Len(stdout) >= 3 => response = "ok"
    /\ (\E i \in 1..Len(stdout) :
            stdout[i] = "Bucket " \o (IF env.S3_BUCKET.none THEN "None"
                                      ELSE env.S3_BUCKET.str)
                                  \o " created successfully")
          => response = "ok"
    /\ Failed =>
          stdout = <<"Starting S3 initialization...",
                     "Creating bucket: " \o (IF env.S3_BUCKET.none THEN "None"
                                             ELSE env.S3_BUCKET.str)>>
    /\ Count("boto3.client") > 0 => Len(stdout) >= 2

C9_Witness ==
    /\ Failed
    /\ exception = "PartialCredentialsError"
    /\ env.S3_BUCKET = None
    /\ stdout = <<"Starting S3 initialization...", "Creating bucket: None">>

\* C10: a run changes the emulator's bucket set by at most adding the bucket
\* named by S3_BUCKET: every bucket there before the run is still there, any
\* new bucket is the named one, and a failed run leaves the set as it was.
C10_FrameOfBuckets ==
    /\ pre_buckets \subseteq buckets
    /\ buckets \ pre_buckets \subseteq
          (IF env.S3_BUCKET.none THEN {} ELSE {env.S3_BUCKET.str})
    /\ Failed => buckets = pre_buckets
    /\ response # "ok" => buckets = pre_buckets

C10_Witness ==
    /\ Succeeded
    /\ pre_buckets = {"logs"}
    /\ buckets = {"logs", "test-bucket"}

TypeOK ==
    /\ env \in Environments
    /\ buckets \subseteq BucketNames
    /\ idempotent \in BOOLEAN
    /\ pc \in {"line4", "line5", "line6", "line8", "line15", "line15_wait",
               "line16", "exited"}
    /\ exit_status \in {-1, 0, 1}
    /\ run \in 1..MaxRuns
    /\ Len(stdout) <= 3
    /\ Len(requests) <= run
====
